---- MODULE Spec2Model ----
(***************************************************************************)
(* Model of the Terabox link resolution engine of src/main.py:             *)
(* DomainManager (host recognition, share-token extraction),               *)
(* TeraboxExtractor (session, the four extraction methods, the streaming   *)
(* helper, the file selector) and VideoResult.                             *)
(*                                                                         *)
(* Python strings are TLA+ strings; a JSON object is a record holding      *)
(* exactly the keys that are present, so dict.get is Get below.            *)
(***************************************************************************)
EXTENDS Integers, Sequences, FiniteSets, TLC

VARIABLES
    fcall,       \* a call of one pure function: its input, and its output once applied
    _session,    \* TeraboxExtractor._session: 0 is None, n > 0 is the n-th session created
    _domain_idx,   \* TeraboxExtractor._domain_idx
    _session_data, \* TeraboxExtractor._session_data, a dict
    sessions,    \* sessions[n] \in {"open", "closed"}: every ClientSession created so far
    pc,          \* pc[t]: where the extract call of task t stands
    url,         \* url[t]: the argument of extract
    surl,        \* surl[t]: the share token extract obtained
    method_idx,  \* method_idx[t]: index of the method being tried (1..4)
    result,      \* result[t]: the VideoResult extract creates on entry
    m_result,    \* m_result[t]: the VideoResult local to the running method
    locals,      \* locals[t]: the other locals of the running method
    resp,        \* resp[t]: the backend's answer to the last request of task t
    ret,         \* ret[t]: what extract returned or raised
    log,         \* log[t]: the logger's lines and the requests issued, in order
    shutdown     \* the shutdown handler's call of close: "idle", "closing" or "done"

vars == <<fcall, _session, _domain_idx, _session_data, sessions, pc, url, surl, method_idx, result, m_result,
          locals, resp, ret, log, shutdown>>

-----------------------------------------------------------------------------
(* Bounds of the model *)

NumTasks == 2        \* tasks that may call extract
MaxFiles == 3        \* longest file list handed to _find_video_file

Tasks == 1..NumTasks

-----------------------------------------------------------------------------
(* Python str operations *)

UpperChars == "ABCDEFGHIJKLMNOPQRSTUVWXYZ"
LowerChars == "abcdefghijklmnopqrstuvwxyz"
DigitChars == "0123456789"

Ch(s, i) == SubSeq(s, i, i)

InStr(c, s) == \E i \in 1..Len(s) : Ch(s, i) = c

Min(S) == CHOOSE m \in S : \A n \in S : m <= n

\* str.lower() on one character
ToLowerCh(c) ==
    IF InStr(c, UpperChars)
    THEN Ch(LowerChars, CHOOSE i \in 1..Len(UpperChars) : Ch(UpperChars, i) = c)
    ELSE c

RECURSIVE Lower(_)
Lower(s) == IF s = "" THEN "" ELSE ToLowerCh(Head(s)) \o Lower(Tail(s))

\* s[i-1:].startswith(p), i counted from 1
StartsWithAt(s, p, i) ==
    /\ i >= 1
    /\ i + Len(p) - 1 <= Len(s)
    /\ SubSeq(s, i, i + Len(p) - 1) = p

\* p in s
Contains(s, p) == \E i \in 1..(Len(s) - Len(p) + 1) : StartsWithAt(s, p, i)

\* s.endswith(p)
EndsWith(s, p) == Len(p) <= Len(s) /\ SubSeq(s, Len(s) - Len(p) + 1, Len(s)) = p

\* s.replace(old, new): every non-overlapping occurrence, left to right
RECURSIVE Replace(_, _, _)
Replace(s, old, new) ==
    IF Len(s) < Len(old) \/ s = "" THEN s
    ELSE IF StartsWithAt(s, old, 1)
         THEN new \o Replace(SubSeq(s, Len(old) + 1, Len(s)), old, new)
         ELSE Head(s) \o Replace(Tail(s), old, new)

\* dict.get(k, default)
Get(d, k, default) == IF k \in DOMAIN d THEN d[k] ELSE default

-----------------------------------------------------------------------------
(* DomainManager *)

DOMAINS == <<
    "terabox.com", "www.terabox.com", "teraboxapp.com", "www.teraboxapp.com",
    "1024tera.com", "www.1024tera.com", "teraboxlink.com", "www.teraboxlink.com",
    "teraboxshare.com", "www.teraboxshare.com", "teraboxurl.com", "www.teraboxurl.com",
    "4funbox.com", "www.4funbox.com", "mirrobox.com", "www.mirrobox.com",
    "nephobox.com", "www.nephobox.com", "momerybox.com", "www.momerybox.com",
    "tibibox.com", "www.tibibox.com", "freeterabox.com", "www.freeterabox.com",
    "1024terabox.com", "www.1024terabox.com", "gibibox.com", "www.gibibox.com",
    "terabox.fun", "www.terabox.fun", "terabox.co", "www.terabox.co",
    "terabox.app", "www.terabox.app" >>

API_DOMAIN == "www.terabox.com"

Keywords == {"terabox", "tera", "box", "dubox"}

\* urllib.parse.urlparse(url), as far as .netloc goes: the scheme is split off at
\* the first ':' when what precedes it is a scheme, the netloc is what follows
\* '//' up to the first of '/', '?', '#', and unbalanced brackets in it raise
\* ValueError.
urlparse(u) ==
    LET colons == {i \in 1..Len(u) : Ch(u, i) = ":"}
        i == IF colons = {} THEN 0 ELSE Min(colons)
        hasScheme ==
            /\ i > 1
            /\ InStr(Ch(u, 1), UpperChars \o LowerChars)
            /\ \A k \in 1..(i - 1) :
                   InStr(Ch(u, k), UpperChars \o LowerChars \o DigitChars \o "+-.")
        rest == IF hasScheme THEN SubSeq(u, i + 1, Len(u)) ELSE u
        hasNetloc == StartsWithAt(rest, "//", 1)
        delims == {k \in 3..Len(rest) : InStr(Ch(rest, k), "/?#")}
        end == IF delims = {} THEN Len(rest) + 1 ELSE Min(delims)
        netloc == IF hasNetloc THEN SubSeq(rest, 3, end - 1) ELSE ""
        invalid == InStr("[", netloc) # InStr("]", netloc)
    IN  [raises |-> invalid, netloc |-> netloc]

is_terabox_url(u) ==
    LET parsed == urlparse(u)
        domain == Replace(Lower(parsed.netloc), "www.", "")
    IN  IF parsed.raises THEN FALSE                 \* except Exception: pass
        ELSE \/ \E i \in 1..Len(DOMAINS) : Replace(DOMAINS[i], "www.", "") = domain
             \/ \E keyword \in Keywords : Contains(domain, keyword)

\* The five patterns of extract_surl, in declaration order. Each is a literal
\* prefix ([?&] gives two) followed by 1?([a-zA-Z0-9_-]+).
SurlPatterns == <<
    {"/s/"},
    {"?surl=", "&surl="},
    {"/sharing/link?surl="},
    {"/wap/s/"},
    {"/web/share/link?surl="} >>

IsTokenChar(c) == InStr(c, LowerChars \o UpperChars \o DigitChars \o "_-")

\* last index of the run of token characters starting at j (j - 1 when empty)
RECURSIVE RunEnd(_, _)
RunEnd(s, j) ==
    IF j <= Len(s) /\ IsTokenChar(Ch(s, j)) THEN RunEnd(s, j + 1) ELSE j - 1

MatchToken_NoOptionalOne(s, j) ==
    IF j <= Len(s) /\ IsTokenChar(Ch(s, j)) THEN SubSeq(s, j, RunEnd(s, j)) ELSE ""

\* group 1 of 1?([a-zA-Z0-9_-]+) matched at position j, "" when it does not
\* match there: the optional 1 is taken when a token character follows it, and
\* given back when it is the only token character.
MatchToken(s, j) ==
    IF j + 1 <= Len(s) /\ Ch(s, j) = "1" /\ IsTokenChar(Ch(s, j + 1))
    THEN SubSeq(s, j + 1, RunEnd(s, j + 1))
    ELSE IF j <= Len(s) /\ IsTokenChar(Ch(s, j))
         THEN SubSeq(s, j, RunEnd(s, j))
         ELSE ""

\* re.search(pattern, s).group(1) for the leftmost match, "" when there is none
re_search(prefixes, s) ==
    LET hits == {i \in 1..Len(s) :
                    \E p \in prefixes :
                        StartsWithAt(s, p, i) /\ MatchToken(s, i + Len(p)) # ""}
    IN  IF hits = {} THEN ""
        ELSE LET i == Min(hits)
                 p == CHOOSE q \in prefixes :
                          StartsWithAt(s, q, i) /\ MatchToken(s, i + Len(q)) # ""
             IN  MatchToken(s, i + Len(p))

NoSurl == [found |-> FALSE]      \* return None, None

RECURSIVE extract_surl_from_BarePath(_, _)
extract_surl_from_BarePath(u, k) ==
    IF k > Len(SurlPatterns) THEN NoSurl
    ELSE LET g == re_search(SurlPatterns[k], u)
         IN  IF g # ""
             THEN [found |-> TRUE, surl |-> g, normalized |-> "/s/" \o g]
             ELSE extract_surl_from_BarePath(u, k + 1)

RECURSIVE extract_surl_from(_, _)
extract_surl_from(u, k) ==
    IF k > Len(SurlPatterns) THEN NoSurl
    ELSE LET g == re_search(SurlPatterns[k], u)
         IN  IF g # ""
             THEN [found |-> TRUE, surl |-> g, normalized |-> "/s/1" \o g]
             ELSE extract_surl_from(u, k + 1)

extract_surl(u) == extract_surl_from(u, 1)

-----------------------------------------------------------------------------
(* VideoResult *)

VideoResult == [
    success |-> FALSE, title |-> "", filename |-> "", size |-> 0, size_str |-> "",
    thumbnail |-> "", stream_url |-> "", download_url |-> "", fs_id |-> "",
    share_id |-> "", uk |-> "", surl |-> "", error |-> "" ]

Units == <<"B", "KB", "MB", "GB">>

\* f"{num / den:.2f}": the quotient rounded to two decimals, ties to even (the
\* division by a power of two is exact in a double)
Fmt2f(num, den) ==
    LET q == (num * 100) \div den
        r == (num * 100) % den
        h == IF 2 * r > den \/ (2 * r = den /\ q % 2 = 1) THEN q + 1 ELSE q
        frac == h % 100
    IN  ToString(h \div 100) \o "." \o (IF frac < 10 THEN "0" ELSE "") \o ToString(frac)

RECURSIVE Pow1024(_)
Pow1024(e) == IF e = 0 THEN 1 ELSE 1024 * Pow1024(e - 1)

\* for unit in ['B', 'KB', 'MB', 'GB']: ... size /= 1024, on the number
\* num * 1024^e / den, from the k-th unit on
RECURSIVE format_size_units(_, _, _, _)
format_size_units(num, e, den, k) ==
    IF k > Len(Units) THEN Fmt2f(num * Pow1024(e), den) \o " TB"
    ELSE IF e = 0 /\ num < 1024 * den THEN Fmt2f(num, den) \o " " \o Units[k]
    ELSE IF e > 0 THEN format_size_units(num, e - 1, den, k + 1)
    ELSE format_size_units(num, e, den * 1024, k + 1)

\* VideoResult.format_size with self.size = m * 1024^e
VideoResult_format_size_scaled(m, e) ==
    IF m <= 0 THEN "Unknown" ELSE format_size_units(m, e, 1, 1)

\* VideoResult.format_size
VideoResult_format_size(size) == VideoResult_format_size_scaled(size, 0)

format_size_scaled_ZeroKnown(m, e) ==
    IF m < 0 THEN "Unknown" ELSE format_size_units(m, e, 1, 1)

\* the module's format_size(size) with size = m * 1024^e
format_size_scaled(m, e) ==
    IF m <= 0 THEN "Unknown" ELSE format_size_units(m, e, 1, 1)

\* the module's format_size
format_size(size) == format_size_scaled(size, 0)

-----------------------------------------------------------------------------
(* TeraboxExtractor._find_video_file *)

None == [py_none |-> TRUE]

video_exts == {".mp4", ".mkv", ".avi", ".mov", ".wmv", ".flv", ".webm", ".m4v",
               ".ts", ".3gp", ".3g2"}

\* f.get("server_filename", f.get("filename", "")).lower() ends with an extension
HasVideoExt(f) ==
    LET name == Lower(Get(f, "server_filename", Get(f, "filename", "")))
    IN  \E ext \in video_exts : EndsWith(name, ext)

HasVideoCategory(f) == Get(f, "category", 0) = 1

HasVideoMime(f) == Contains(Lower(Get(f, "mime_type", "")), "video")

\* the test the loop of pass number pass makes on a record
PassTest(f, pass) ==
    CASE pass = 1 -> HasVideoExt(f)
      [] pass = 2 -> HasVideoCategory(f)
      [] pass = 3 -> HasVideoMime(f)

\* for f in file_list: if <test>: return f   (0: the loop ends without returning)
RECURSIVE FirstFrom(_, _, _)
FirstFrom(file_list, pass, i) ==
    IF i > Len(file_list) THEN 0
    ELSE IF PassTest(file_list[i], pass) THEN i
         ELSE FirstFrom(file_list, pass, i + 1)

_find_video_file_CategoryFirst(file_list) ==
    LET byExt == FirstFrom(file_list, 1, 1)
        byCategory == FirstFrom(file_list, 2, 1)
    IN  IF byCategory > 0 THEN file_list[byCategory]
        ELSE IF byExt > 0 THEN file_list[byExt]
        ELSE IF file_list # <<>> THEN file_list[1] ELSE None

_find_video_file_EmptyGivesRecord(file_list) ==
    LET byExt == FirstFrom(file_list, 1, 1)
        byCategory == FirstFrom(file_list, 2, 1)
        byMime == FirstFrom(file_list, 3, 1)
    IN  IF byExt > 0 THEN file_list[byExt]
        ELSE IF byCategory > 0 THEN file_list[byCategory]
        ELSE IF byMime > 0 THEN file_list[byMime]
        ELSE IF file_list # <<>> THEN file_list[1]
        ELSE [server_filename |-> "Unknown"]

_find_video_file(file_list) ==
    LET byExt == FirstFrom(file_list, 1, 1)
        byCategory == FirstFrom(file_list, 2, 1)
        byMime == FirstFrom(file_list, 3, 1)
    IN  IF byExt > 0 THEN file_list[byExt]
        ELSE IF byCategory > 0 THEN file_list[byCategory]
        ELSE IF byMime > 0 THEN file_list[byMime]
        ELSE IF file_list # <<>> THEN file_list[1]
        ELSE None

\* Python truth value of a dict or None
Falsy(d) == d = None \/ DOMAIN d = {}

-----------------------------------------------------------------------------
(* Calls of the pure functions on inputs drawn from bounded sets *)

NoCall == [fn |-> "none"]

\* the call c once the function has returned v
Returned(c, v) ==
    [k \in DOMAIN c \cup {"out"} |->
        IF k = "out" THEN v ELSE IF k = "done" THEN TRUE ELSE c[k]]

\* No task has called extract, no session exists.
NoExtract ==
    /\ _session = 0
    /\ _domain_idx = 0
    /\ _session_data = <<>>
    /\ sessions = <<>>
    /\ pc = [t \in Tasks |-> "idle"]
    /\ url = [t \in Tasks |-> ""]
    /\ surl = [t \in Tasks |-> ""]
    /\ method_idx = [t \in Tasks |-> 0]
    /\ result = [t \in Tasks |-> VideoResult]
    /\ m_result = [t \in Tasks |-> VideoResult]
    /\ locals = [t \in Tasks |-> <<>>]
    /\ resp = [t \in Tasks |-> [kind |-> "none"]]
    /\ ret = [t \in Tasks |-> [kind |-> "none"]]
    /\ log = [t \in Tasks |-> <<>>]
    /\ shutdown = "idle"

extractVars == <<_session, _domain_idx, _session_data, sessions, pc, url, surl, method_idx, result, m_result,
                 locals, resp, ret, log, shutdown>>

(* extract_surl: a URL is a scheme and a registry host followed by two parts, *)
(* each a share-token shape, the text after it and a tail (or nothing).       *)
SurlHosts == {"terabox.com", "www.1024tera.com"}
Shapes == {"/s/", "?surl=", "&surl=", "/sharing/link?surl=", "/wap/s/",
           "/web/share/link?surl="}
RawTokens == {"", "1", "1abc", "abc", "11a", "A_b-9"}
Tails == {"", "?pwd=x"}
NoPart == [shape |-> "", raw |-> "", tail |-> ""]
Parts == {NoPart} \cup [shape : Shapes, raw : RawTokens, tail : Tails]
PartText(p) == p.shape \o p.raw \o p.tail

SurlCalls ==
    {[fn |-> "extract_surl", done |-> FALSE, host |-> h, parts |-> <<p1, p2>>,
      url |-> "https://" \o h \o PartText(p1) \o PartText(p2)] :
        h \in SurlHosts, p1 \in Parts, p2 \in Parts}

InitSurl == fcall \in SurlCalls /\ NoExtract

Call_extract_surl ==
    /\ fcall.fn = "extract_surl" /\ ~fcall.done
    /\ fcall' = Returned(fcall, extract_surl(fcall.url))
    /\ UNCHANGED extractVars

SpecSurl == InitSurl /\ [][Call_extract_surl]_vars

\* extract_surl applied to the normalized path a first call returned
Call_extract_surl_normalized ==
    /\ fcall.fn = "extract_surl" /\ fcall.done /\ fcall.out.found
    /\ fcall' = [fn |-> "extract_surl_normalized", done |-> TRUE, first |-> fcall.out,
                 url |-> fcall.out.normalized,
                 out |-> extract_surl(fcall.out.normalized)]
    /\ UNCHANGED extractVars

NextNormalized == Call_extract_surl \/ Call_extract_surl_normalized

SpecNormalized == InitSurl /\ [][NextNormalized]_vars

(* The two format_size: a size is m * 1024^e.                                 *)
MaxMantissa == 2049
MaxExp == 4
LargeSizes == {1048575, 1048576, 1572864}

SizeCalls ==
    {[fn |-> "format_size", done |-> FALSE, m |-> m, e |-> e] :
        m \in -1..MaxMantissa, e \in 0..MaxExp}
    \cup {[fn |-> "format_size", done |-> FALSE, m |-> m, e |-> 0] : m \in LargeSizes}

InitSize == fcall \in SizeCalls /\ NoExtract

Call_format_size ==
    /\ fcall.fn = "format_size" /\ ~fcall.done
    /\ fcall' = Returned(fcall, [method |-> VideoResult_format_size_scaled(fcall.m, fcall.e),
                                 function |-> format_size_scaled(fcall.m, fcall.e)])
    /\ UNCHANGED extractVars

SpecSize == InitSize /\ [][Call_format_size]_vars

(* is_terabox_url: a URL is a scheme, a netloc (user information, host) and  *)
(* a tail (path, query, fragment).                                           *)
Schemes == {"https://", "http://", "HTTPS://", "//", "", "https:/"}
UserInfos == {"", "box@"}
HostNames == {"terabox.com", "www.terabox.com", "WWW.4funbox.COM", "mybox.io",
              "example.com", "www.example.com", "bwww.ox.com", "youtube.com",
              "[bad"}
HostTails == {"", "/", "/s/1abc", "/terabox/s/1abc", "?surl=1abc&site=terabox.com",
              "#box", "/x?u=https://terabox.com/s/1abc"}

HostCalls ==
    {[fn |-> "is_terabox_url", done |-> FALSE, scheme |-> sc, userinfo |-> ui,
      host |-> h, tail |-> tl, url |-> sc \o ui \o h \o tl] :
        sc \in Schemes, ui \in UserInfos, h \in HostNames, tl \in HostTails}

InitHost == fcall \in HostCalls /\ NoExtract

Call_is_terabox_url ==
    /\ fcall.fn = "is_terabox_url" /\ ~fcall.done
    /\ fcall' = Returned(fcall, is_terabox_url(fcall.url))
    /\ UNCHANGED extractVars

SpecHost == InitHost /\ [][Call_is_terabox_url]_vars

(* _find_video_file: file lists of up to MaxFiles records. *)
FileRecords == {
    [fs_id |-> 1, server_filename |-> "movie.MKV", category |-> 1,
     mime_type |-> "video/x-matroska"],
    [fs_id |-> 2, server_filename |-> "cover.jpg", category |-> 3,
     mime_type |-> "image/jpeg"],
    [fs_id |-> 3, server_filename |-> "clip", category |-> 1],
    [fs_id |-> 4, server_filename |-> "stream.bin", category |-> 6,
     mime_type |-> "VIDEO/MP4"],
    [fs_id |-> 5, filename |-> "trailer.mp4"],
    [fs_id |-> 6, server_filename |-> "notes.txt", category |-> 4,
     mime_type |-> "text/plain"],
    [fs_id |-> 7, server_filename |-> "raw.dat",
     mime_type |-> "application/video-stream"],
    [fs_id |-> 8, server_filename |-> "mp4"] }

FileLists == UNION {[1..n -> FileRecords] : n \in 0..MaxFiles}

FindCalls == {[fn |-> "_find_video_file", done |-> FALSE, file_list |-> l] :
                 l \in FileLists}

InitFind == fcall \in FindCalls /\ NoExtract

Call_find_video_file ==
    /\ fcall.fn = "_find_video_file" /\ ~fcall.done
    /\ fcall' = Returned(fcall, _find_video_file(fcall.file_list))
    /\ UNCHANGED extractVars

SpecFind == InitFind /\ [][Call_find_video_file]_vars

-----------------------------------------------------------------------------
(* The backend: what each endpoint may answer *)

\* session.get raises (connection error, timeout)
NetError(e) == [kind |-> "error", exc |-> e]
\* a response whose body resp.json() parses
Json(status, body) == [kind |-> "http", status |-> status, json |-> TRUE, body |-> body]
\* a response whose body resp.json() rejects (ContentTypeError)
NotJson(status) == [kind |-> "http", status |-> status, json |-> FALSE]
\* a page, for resp.text()
Html(status, text) == [kind |-> "http", status |-> status, text |-> text]
\* the request is on the wire
Pending == [kind |-> "pending"]

\* Where the code tests the JSON type of a value (isinstance), the value carries it.
Arr(s) == [array |-> s]
Obj(d) == [object |-> d]

InfoFile == [server_filename |-> "info.mp4", size |-> 1536, fs_id |-> 11,
             thumbs |-> [url3 |-> "https://thumb/info.jpg"]]
InfoFileDlink == [server_filename |-> "info.mp4", size |-> 1536, fs_id |-> 11,
                  thumbs |-> [url3 |-> "https://thumb/info.jpg"],
                  dlink |-> "https://d.terabox.com/info"]
InfoCoverDlink == [server_filename |-> "cover.jpg", size |-> 100, fs_id |-> 13,
                   dlink |-> "https://d.terabox.com/cover"]
InfoFileNullThumbs == [server_filename |-> "info.mp4", size |-> 1536, fs_id |-> 11,
                       thumbs |-> None]
InfoBare == [fs_id |-> 12]
InfoFileDlinkNullThumbs == [server_filename |-> "info.mp4", size |-> 1536, fs_id |-> 11,
                            thumbs |-> None, dlink |-> "https://d.terabox.com/info"]

ShorturlinfoResponses == <<
    NetError("ClientError"),
    NetError("TimeoutError"),
    NotJson(200),
    Json(403, [errno |-> 0, list |-> <<InfoFileDlink>>, shareid |-> 111, uk |-> 222]),
    Json(200, [errno |-> 2]),
    Json(200, [list |-> <<InfoFileDlink>>]),
    Json(200, [errno |-> 0]),
    Json(200, [errno |-> 0, list |-> <<>>]),
    Json(200, [errno |-> 0, list |-> << <<>> >>]),
    Json(200, [errno |-> 0, list |-> <<InfoFileDlink>>, shareid |-> 111, uk |-> 222,
               sign |-> "sg", timestamp |-> 1700]),
    Json(200, [errno |-> 0, list |-> <<InfoFile>>, shareid |-> 111, uk |-> 222,
               sign |-> "sg", timestamp |-> 1700]),
    Json(200, [errno |-> 0, list |-> <<InfoCoverDlink, InfoFile>>, shareid |-> 111,
               uk |-> 222]),
    Json(200, [errno |-> 0, list |-> <<InfoFileNullThumbs>>, shareid |-> 111,
               uk |-> 222]),
    Json(200, [errno |-> 0, list |-> <<InfoBare>>]),
    Json(200, [errno |-> 0, list |-> <<InfoFileDlinkNullThumbs>>, shareid |-> 111,
               uk |-> 222]) >>

PageResponses == <<
    NetError("ClientError"),
    Html(200, "<script>{\"shareid\":333,\"uk\":444,\"sign\":\"sg2\",\"timestamp\":1800}</script>"),
    Html(200, "var shareid = 555; var sign = 'sg3';"),
    Html(200, "<script>{\"uk\": 444, \"timestamp\": 1800}</script>"),
    Html(404, "<html>share expired</html>") >>

ListFile == [server_filename |-> "list.mkv", size |-> 2048, fs_id |-> 21]

ShareListResponses == <<
    NetError("TimeoutError"),
    NotJson(200),
    Json(200, [errno |-> 2]),
    Json(200, [errno |-> 0, list |-> <<>>]),
    Json(200, [errno |-> 0, list |-> <<ListFile>>]),
    Json(200, [errno |-> 0, list |-> <<[category |-> 1]>>]) >>

WapFileDlink == [server_filename |-> "wap.mp4", size |-> 4096, fs_id |-> 31,
                 dlink |-> "https://d.terabox.com/wap"]
WapFile == [server_filename |-> "wap.mp4", size |-> 4096, fs_id |-> 31]
WapPartDlink == [server_filename |-> "wap2.mp4", size |-> 8192, fs_id |-> 33,
                 dlink |-> "https://d.terabox.com/wap2"]
WapCoverDlink == [server_filename |-> "wap.jpg", size |-> 7, fs_id |-> 32,
                  dlink |-> "https://d.terabox.com/wapcover"]

WapResponses == <<
    NetError("ClientError"),
    NotJson(502),
    Json(200, [errno |-> 9]),
    Json(200, [list |-> <<>>]),
    Json(200, [list |-> <<WapFileDlink>>]),
    Json(200, [list |-> <<WapFile>>]),
    Json(200, [list |-> <<WapFile, WapCoverDlink>>]),
    Json(200, [list |-> <<WapCoverDlink, WapFileDlink>>]),
    Json(200, [list |-> <<WapFile, WapPartDlink>>]) >>

FilemetasResponses == <<
    NetError("ClientError"),
    NotJson(200),
    Json(200, [errno |-> 2]),
    Json(200, [info |-> Arr(<<>>)]),
    Json(200, [info |-> Obj([dlink |-> "https://d.terabox.com/metaobj"])]),
    Json(200, [info |-> Arr(<<[filename |-> "meta.mp4", size |-> 1048576]>>)]),
    Json(200, [info |-> Arr(<<[filename |-> "meta.mp4", size |-> 1048576,
                               dlink |-> "https://d.terabox.com/meta"]>>)]),
    Json(200, [info |-> Arr(<<[dlink |-> "https://d.terabox.com/meta2"]>>)]) >>

\* the answers of /share/streaming (ep = "streaming") and /share/download
StreamResponses(ep) == <<
    NetError("ClientError"),
    NotJson(200),
    Json(200, [errno |-> 2]),
    Json(200, [dlink |-> "https://cdn/" \o ep \o "/dlink", lurl |-> "https://cdn/" \o ep \o "/lurl0"]),
    Json(200, [lurl |-> "https://cdn/" \o ep \o "/lurl"]),
    Json(200, [mlink |-> "https://cdn/" \o ep \o "/mlink0", url |-> "https://cdn/" \o ep \o "/url"]),
    Json(200, [list |-> Arr(<<>>)]),
    Json(200, [list |-> Arr(<<[fs_id |-> 11]>>)]),
    Json(200, [list |-> Arr(<<[dlink |-> "https://cdn/" \o ep \o "/list0"]>>)]),
    Json(200, [list |-> Obj([dlink |-> "https://cdn/" \o ep \o "/listobj"])]) >>

-----------------------------------------------------------------------------
(* TeraboxExtractor: the pure parts of the methods *)

API_ENDPOINTS == [
    shorturlinfo |-> "/api/shorturlinfo", share_list |-> "/share/list",
    share_download |-> "/share/download", share_streaming |-> "/share/streaming",
    share_wxlist |-> "/share/wxlist", filemetas |-> "/api/filemetas",
    video_play |-> "/share/videoPlay" ]

\* DomainManager.get_api_url; raises: ValueError("Unknown endpoint")
get_api_url(endpoint, s) ==
    LET base == "https://" \o API_DOMAIN
        endpoint_path == Get(API_ENDPOINTS, endpoint, "")
    IN  IF endpoint_path = "" THEN [raises |-> TRUE, url |-> ""]
        ELSE IF s # "" /\ endpoint \in {"shorturlinfo", "share_wxlist"}
             THEN [raises |-> FALSE, url |-> base \o endpoint_path \o "?surl=1" \o s]
             ELSE [raises |-> FALSE, url |-> base \o endpoint_path]

EndpointNames_Misspelt == [
    shorturlinfo |-> "shorturlinfo", sharelist |-> "share_list",
    wap |-> "share_wapList", alternative |-> "filemetas" ]

\* the endpoint name each method passes to get_api_url
EndpointNames == [
    shorturlinfo |-> "shorturlinfo", sharelist |-> "share_list",
    wap |-> "share_wxlist", alternative |-> "filemetas" ]

\* str(d.get(k, "")) for a JSON number
StrGet(d, k) == IF k \in DOMAIN d THEN ToString(d[k]) ELSE ""

\* What a step of a method does next: raise, return its result, or issue a
\* request and wait for the answer at `at` (get_session first when `open`).
Raise(e, r) == [do |-> "raise", exc |-> e, result |-> r, open |-> FALSE]
\* ... raised after the method's await self.get_session()
RaiseOpen(e, r) == [do |-> "raise", exc |-> e, result |-> r, open |-> TRUE]
Return(r) == [do |-> "return", result |-> r, open |-> FALSE]
Request(u, at, r, l, open) ==
    [do |-> "request", url |-> u, at |-> at, result |-> r, locals |-> l, open |-> open]

\* result = VideoResult(); result.surl = surl. prev is the object the method
\* before this one left behind; the constructor call does not look at it.
NewResult_Reused(prev, s) == [prev EXCEPT !.surl = s]

NewResult_KeepsIds(prev, s) ==
    [VideoResult EXCEPT !.surl = s, !.share_id = prev.share_id, !.uk = prev.uk]

NewResult_SharedToken(prev, s) == [VideoResult EXCEPT !.surl = surl[1]]

NewResult(prev, s) == [VideoResult EXCEPT !.surl = s]

\* stream_url found: result.stream_url = ...; result.download_url = ...; success
WithStream(r, link) ==
    [r EXCEPT !.stream_url = link, !.download_url = link, !.success = TRUE]

StreamEndpoints == <<"/share/streaming", "/share/download">>

\* _get_stream_url up to its first request: session = await self.get_session(),
\* then the GET of the first endpoint
call_get_stream_url(r, l) ==
    Request("https://" \o API_DOMAIN \o StreamEndpoints[1], "stream", r,
            [k \in DOMAIN l \cup {"endpoint"} |-> IF k = "endpoint" THEN 1 ELSE l[k]],
            TRUE)

\* _extract_method_shorturlinfo up to its request
start_shorturlinfo(prev, s) ==
    LET r == NewResult(prev, s)
        api == get_api_url(EndpointNames.shorturlinfo, s)
    IN  IF api.raises THEN RaiseOpen("ValueError", r)
        ELSE Request(api.url, "shorturlinfo", r, [caller |-> "shorturlinfo"], TRUE)

on_shorturlinfo_AnyErrno(r, l, rsp) ==
    IF rsp.kind = "error" THEN Raise(rsp.exc, r)
    ELSE IF rsp.status # 200 THEN Raise("Exception", r)
    ELSE IF ~rsp.json THEN Raise("ContentTypeError", r)
    ELSE
    LET data == rsp.body
        file_list == Get(data, "list", <<>>)
        target == _find_video_file(file_list)
        meta == [r EXCEPT !.title = Get(target, "server_filename", "Unknown"),
                          !.filename = Get(target, "server_filename", "Unknown"),
                          !.size = Get(target, "size", 0),
                          !.size_str = VideoResult_format_size(Get(target, "size", 0)),
                          !.fs_id = StrGet(target, "fs_id"),
                          !.share_id = StrGet(data, "shareid"),
                          !.uk = StrGet(data, "uk")]
        thumbs == Get(target, "thumbs", <<>>)
        full == [meta EXCEPT !.thumbnail = Get(thumbs, "url3", "")]
    IN  IF file_list = <<>> THEN Raise("Exception", r)
        ELSE IF Falsy(target) THEN Raise("Exception", r)
        ELSE IF thumbs = None THEN Raise("AttributeError", meta)
        ELSE IF Get(target, "dlink", "") # "" THEN Return(WithStream(full, target.dlink))
        ELSE call_get_stream_url(full, l)

\* _extract_method_shorturlinfo from the answer of its request on
on_shorturlinfo(r, l, rsp) ==
    IF rsp.kind = "error" THEN Raise(rsp.exc, r)
    ELSE IF rsp.status # 200 THEN Raise("Exception", r)
    ELSE IF ~rsp.json THEN Raise("ContentTypeError", r)
    ELSE
    LET data == rsp.body
        file_list == Get(data, "list", <<>>)
        target == _find_video_file(file_list)
        meta == [r EXCEPT !.title = Get(target, "server_filename", "Unknown"),
                          !.filename = Get(target, "server_filename", "Unknown"),
                          !.size = Get(target, "size", 0),
                          !.size_str = VideoResult_format_size(Get(target, "size", 0)),
                          !.fs_id = StrGet(target, "fs_id"),
                          !.share_id = StrGet(data, "shareid"),
                          !.uk = StrGet(data, "uk")]
        thumbs == Get(target, "thumbs", <<>>)
        full == [meta EXCEPT !.thumbnail = Get(thumbs, "url3", "")]
    IN  IF ~("errno" \in DOMAIN data /\ data.errno = 0) THEN Raise("Exception", r)
        ELSE IF file_list = <<>> THEN Raise("Exception", r)
        ELSE IF Falsy(target) THEN Raise("Exception", r)
        ELSE IF thumbs = None THEN Raise("AttributeError", meta)
        ELSE IF Get(target, "dlink", "") # "" THEN Return(WithStream(full, target.dlink))
        ELSE call_get_stream_url(full, l)

\* first index from j on whose character is not in chars
RECURSIVE SkipWhile(_, _, _)
SkipWhile(s, j, chars) ==
    IF j <= Len(s) /\ InStr(Ch(s, j), chars) THEN SkipWhile(s, j + 1, chars) ELSE j

\* first index from j on whose character is in chars (Len(s) + 1 when none)
RECURSIVE SkipUntil(_, _, _)
SkipUntil(s, j, chars) ==
    IF j <= Len(s) /\ ~InStr(Ch(s, j), chars) THEN SkipUntil(s, j + 1, chars) ELSE j

Whitespace == " "

\* (\d+) at j: the digits, "" when there is none
DigitsAt(s, j) == SubSeq(s, j, SkipWhile(s, j, DigitChars) - 1)

\* q([^q]+)q at j for the quote character q: the text, "" when it does not match
QuotedAt(s, j, q) ==
    LET close == SkipUntil(s, j + 1, q)
    IN  IF j <= Len(s) /\ Ch(s, j) = q /\ close <= Len(s)
        THEN SubSeq(s, j + 1, close - 1) ELSE ""

\* "key"\s*:\s* matched at i: the index after it, 0 when it does not match
AfterJsonKey(s, key, i) ==
    LET lit == "\"" \o key \o "\""
        colon == SkipWhile(s, i + Len(lit), Whitespace)
    IN  IF StartsWithAt(s, lit, i) /\ colon <= Len(s) /\ Ch(s, colon) = ":"
        THEN SkipWhile(s, colon + 1, Whitespace) ELSE 0

\* key[class]+ matched at i: the index after it, 0 when it does not match
AfterLooseKey(s, key, class, i) ==
    LET from == i + Len(key)
        to == SkipWhile(s, from, class)
    IN  IF StartsWithAt(s, key, i) /\ to > from THEN to ELSE 0

\* group 1 of the leftmost match of a pattern whose group is Group(i) at i
LeftmostGroup(groups) ==
    LET hits == {i \in DOMAIN groups : groups[i] # ""}
    IN  IF hits = {} THEN "" ELSE groups[Min(hits)]

\* re.search(r'"key"\s*:\s*(\d+)', html), then re.search(r'key["\s:=]+(\d+)', html)
ScrapeNumber(html, key) ==
    LET strict(i) == IF AfterJsonKey(html, key, i) = 0 THEN ""
                     ELSE DigitsAt(html, AfterJsonKey(html, key, i))
        loose(i) == IF AfterLooseKey(html, key, "\"" \o Whitespace \o ":=", i) = 0 THEN ""
                    ELSE DigitsAt(html, AfterLooseKey(html, key, "\"" \o Whitespace \o ":=", i))
        first == LeftmostGroup([i \in 1..Len(html) |-> strict(i)])
    IN  IF first # "" THEN first ELSE LeftmostGroup([i \in 1..Len(html) |-> loose(i)])

\* re.search(r'"key"\s*:\s*"([^"]+)"', html), then
\* re.search(r"key[\"\\s:=]+'([^']+)'", html): in this class \\s is a backslash
\* and the letter s
ScrapeString(html, key) ==
    LET strict(i) == IF AfterJsonKey(html, key, i) = 0 THEN ""
                     ELSE QuotedAt(html, AfterJsonKey(html, key, i), "\"")
        loose(i) == IF AfterLooseKey(html, key, "\"\\s:=", i) = 0 THEN ""
                    ELSE QuotedAt(html, AfterLooseKey(html, key, "\"\\s:=", i), "'")
        first == LeftmostGroup([i \in 1..Len(html) |-> strict(i)])
    IN  IF first # "" THEN first ELSE LeftmostGroup([i \in 1..Len(html) |-> loose(i)])

\* _parse_page_data: the keys found, each with its text. (The inline "list" the
\* code also looks for is read by no caller and is left out.)
_parse_page_data(html) ==
    LET found == [shareid |-> ScrapeNumber(html, "shareid"),
                  uk |-> ScrapeNumber(html, "uk"),
                  sign |-> ScrapeString(html, "sign"),
                  timestamp |-> ScrapeNumber(html, "timestamp"),
                  js_token |-> ScrapeString(html, "jsToken"),
                  bdstoken |-> ScrapeString(html, "bdstoken")]
    IN  [k \in {key \in DOMAIN found : found[key] # ""} |-> found[k]]

\* the session a method holds in its local `session` has been closed; a
\* session.get on it raises RuntimeError("Session is closed")
SessionClosed(l) == sessions[l.session] = "closed"

\* _extract_method_sharelist up to its first request
start_sharelist(prev, s) ==
    Request("https://" \o API_DOMAIN \o "/s/1" \o s, "page", NewResult(prev, s),
            [caller |-> "sharelist"], TRUE)

on_page_NoShareidCheck(r, l, rsp) ==
    IF rsp.kind = "error" THEN Raise(rsp.exc, r)
    ELSE Request(get_api_url("share_list", "").url, "share_list", r,
                 [caller |-> "sharelist", page_data |-> _parse_page_data(rsp.text)], FALSE)

\* _extract_method_sharelist from the page to the listing request
on_page(r, l, rsp) ==
    IF rsp.kind = "error" THEN Raise(rsp.exc, r)
    ELSE
    LET page_data == _parse_page_data(rsp.text)
        api == get_api_url(EndpointNames.sharelist, "")
    IN  IF Get(page_data, "shareid", "") = "" THEN Raise("Exception", r)
        ELSE IF api.raises THEN Raise("ValueError", r)
        ELSE IF SessionClosed(l) THEN Raise("RuntimeError", r)
        ELSE Request(api.url, "share_list", r,
                     [caller |-> "sharelist", page_data |-> page_data], FALSE)

\* _extract_method_sharelist from the listing to the call of _get_stream_url
on_share_list(r, l, rsp) ==
    IF rsp.kind = "error" THEN Raise(rsp.exc, r)
    ELSE IF ~rsp.json THEN Raise("ContentTypeError", r)
    ELSE
    LET data == rsp.body
        file_list == Get(data, "list", <<>>)
        target == _find_video_file(file_list)
        meta == [r EXCEPT !.title = Get(target, "server_filename", "Unknown"),
                          !.filename = Get(target, "server_filename", "Unknown"),
                          !.size = Get(target, "size", 0),
                          !.size_str = VideoResult_format_size(Get(target, "size", 0)),
                          !.fs_id = StrGet(target, "fs_id"),
                          !.share_id = Get(l.page_data, "shareid", ""),
                          !.uk = Get(l.page_data, "uk", "")]
    IN  IF file_list = <<>> THEN Raise("Exception", r)
        ELSE IF Falsy(target) THEN Raise("Exception", r)
        ELSE call_get_stream_url(meta, l)

StreamKeys_LurlFirst == <<"lurl", "dlink", "url", "mlink">>

StreamKeys == <<"dlink", "lurl", "url", "mlink">>

\* for key in ["dlink", "lurl", "url", "mlink"]: if data.get(key): return data[key]
RECURSIVE FirstKey(_, _)
FirstKey(data, i) ==
    IF i > Len(StreamKeys) THEN ""
    ELSE IF Get(data, StreamKeys[i], "") # "" THEN data[StreamKeys[i]]
         ELSE FirstKey(data, i + 1)

\* the URL _get_stream_url finds in one answer, "" when it finds none
StreamUrlIn(data) ==
    IF FirstKey(data, 1) # "" THEN FirstKey(data, 1)
    ELSE IF "list" \notin DOMAIN data THEN ""
    ELSE IF "array" \in DOMAIN data.list
         THEN IF data.list.array # <<>> /\ Get(data.list.array[1], "dlink", "") # ""
              THEN data.list.array[1].dlink ELSE ""
         ELSE Get(data.list.object, "dlink", "")

\* _get_stream_url from one answer on, and the caller's use of what it returns:
\* an error inside the loop (of the answer, or of the next session.get when the
\* session was closed meanwhile) is caught there and the next endpoint is tried
on_stream(r, l, rsp) ==
    LET found == IF rsp.kind = "error" \/ ~rsp.json THEN "" ELSE StreamUrlIn(rsp.body)
    IN  IF found # "" THEN Return(WithStream(r, found))
        ELSE IF l.endpoint < Len(StreamEndpoints) /\ ~SessionClosed(l)
             THEN Request("https://" \o API_DOMAIN \o StreamEndpoints[l.endpoint + 1],
                          "stream", r, [l EXCEPT !.endpoint = l.endpoint + 1], FALSE)
             ELSE Raise("Exception", r)

\* _extract_method_wap up to its request
start_wap(prev, s) ==
    LET r == NewResult(prev, s)
        api == get_api_url(EndpointNames.wap, s)
    IN  IF api.raises THEN RaiseOpen("ValueError", r)
        ELSE Request(api.url, "wap", r, [caller |-> "wap"], TRUE)

on_wap_AnyDlink(r, l, rsp) ==
    IF rsp.kind = "error" THEN Raise(rsp.exc, r)
    ELSE IF ~rsp.json THEN Raise("ContentTypeError", r)
    ELSE
    LET data == rsp.body
        file_list == Get(data, "list", <<>>)
        target == _find_video_file(file_list)
        meta == [r EXCEPT !.title = Get(target, "server_filename", "Unknown"),
                          !.filename = Get(target, "server_filename", "Unknown"),
                          !.size = Get(target, "size", 0),
                          !.size_str = VideoResult_format_size(Get(target, "size", 0)),
                          !.fs_id = StrGet(target, "fs_id")]
    IN  IF file_list = <<>> THEN Raise("Exception", r)
        ELSE IF Falsy(target) THEN Raise("Exception", r)
        ELSE Return(WithStream(meta, Get(target, "dlink", "")))

\* _extract_method_wap from the answer of its request on
on_wap(r, l, rsp) ==
    IF rsp.kind = "error" THEN Raise(rsp.exc, r)
    ELSE IF ~rsp.json THEN Raise("ContentTypeError", r)
    ELSE
    LET data == rsp.body
        file_list == Get(data, "list", <<>>)
        target == _find_video_file(file_list)
        meta == [r EXCEPT !.title = Get(target, "server_filename", "Unknown"),
                          !.filename = Get(target, "server_filename", "Unknown"),
                          !.size = Get(target, "size", 0),
                          !.size_str = VideoResult_format_size(Get(target, "size", 0)),
                          !.fs_id = StrGet(target, "fs_id")]
    IN  IF file_list = <<>> THEN Raise("Exception", r)
        ELSE IF Falsy(target) THEN Raise("Exception", r)
        ELSE IF Get(target, "dlink", "") # "" THEN Return(WithStream(meta, target.dlink))
        ELSE Raise("Exception", meta)

\* _extract_method_alternative up to its request; an error of get_api_url is
\* caught by the method's own try and becomes its final raise
start_alternative(prev, s) ==
    LET r == NewResult(prev, s)
        api == get_api_url(EndpointNames.alternative, "")
    IN  IF api.raises THEN RaiseOpen("Exception", r)
        ELSE Request(api.url, "alternative", r, [caller |-> "alternative"], TRUE)

\* _extract_method_alternative from the answer of its request on
on_alternative(r, l, rsp) ==
    IF rsp.kind = "error" \/ ~rsp.json THEN Raise("Exception", r)
    ELSE
    LET data == rsp.body
        info == data.info.array[1]
    IN  IF /\ "info" \in DOMAIN data
           /\ "array" \in DOMAIN data.info
           /\ data.info.array # <<>>
           /\ Get(info, "dlink", "") # ""
        THEN Return([WithStream(r, info.dlink) EXCEPT
                         !.title = Get(info, "filename", "Unknown"),
                         !.size = Get(info, "size", 0),
                         !.size_str = VideoResult_format_size(Get(info, "size", 0))])
        ELSE Raise("Exception", r)

-----------------------------------------------------------------------------
(* TeraboxExtractor.extract, one call per task *)

ExtractUrls == {
    "https://www.terabox.com/s/1abc",
    "https://teraboxapp.com/sharing/link?surl=q_9",
    "https://terabox.com/",
    "https://example.com/s/1abc",
    "https://box@example.com/s/1abc",
    "terabox.com/s/1abc" }

InvalidUrlError == "Not a valid Terabox URL"
NoShareIdError == "Could not extract share ID"
AllFailedError ==
    "All verified extraction methods failed. Link may be private, expired, or blocked."

\* the two checks extract makes before it tries any method
Validate(u) ==
    IF ~is_terabox_url(u) THEN [ok |-> FALSE, error |-> InvalidUrlError]
    ELSE IF ~extract_surl(u).found THEN [ok |-> FALSE, error |-> NoShareIdError]
    ELSE [ok |-> TRUE, surl |-> extract_surl(u).surl]

extraction_methods_RetryFirst == <<"shorturlinfo", "shorturlinfo", "sharelist", "wap">>

extraction_methods_WapSecond == <<"shorturlinfo", "wap", "sharelist", "alternative">>

extraction_methods == <<"shorturlinfo", "sharelist", "wap", "alternative">>

Exceptions_WithoutTimeout == {"Exception", "ClientError", "ContentTypeError",
                              "AttributeError", "ValueError", "RuntimeError"}

\* what the methods raise; every one is a subclass of Exception
Exceptions == {"Exception", "ClientError", "TimeoutError", "ContentTypeError",
               "AttributeError", "ValueError", "RuntimeError"}

Caught_ClientErrorsOnly(exc) == exc \in {"ClientError", "TimeoutError", "ContentTypeError"}

\* except Exception as e
Caught(exc) == exc \in Exceptions

\* if video_result.success and video_result.stream_url
Accepted(video_result) == video_result.success /\ video_result.stream_url # ""

AllFailedReturn_NoError(r) == r

\* result.error = "All verified ..."; return result
AllFailedReturn(r) == [r EXCEPT !.error = AllFailedError]

NeedSession_Always == TRUE

NeedSession_Unshared ==
    _session = 0 \/ sessions[_session] = "closed" \/ \E t \in Tasks : pc[t] \notin {"idle", "loop", "done"}

\* get_session: a session is created when none is held or the held one is closed
NeedSession == _session = 0 \/ sessions[_session] = "closed"

get_session ==
    /\ _session' = IF NeedSession THEN Len(sessions) + 1 ELSE _session
    /\ sessions' = IF NeedSession THEN Append(sessions, "open") ELSE sessions

Init == fcall = NoCall /\ NoExtract

\* extract(u) up to the loop over the methods; no call arrives once the
\* shutdown handler runs
ExtractUrl(t, u) ==
    /\ fcall.fn = "none" /\ pc[t] = "idle" /\ shutdown = "idle"
    /\ LET v == Validate(u)
           r == IF v.ok THEN [VideoResult EXCEPT !.surl = v.surl]
                ELSE [VideoResult EXCEPT !.error = v.error]
       IN  /\ url' = [url EXCEPT ![t] = u]
           /\ result' = [result EXCEPT ![t] = r]
           /\ surl' = IF v.ok THEN [surl EXCEPT ![t] = v.surl] ELSE surl
           /\ method_idx' = IF v.ok THEN [method_idx EXCEPT ![t] = 1] ELSE method_idx
           /\ pc' = [pc EXCEPT ![t] = IF v.ok THEN "loop" ELSE "done"]
           /\ ret' = IF v.ok THEN ret
                     ELSE [ret EXCEPT ![t] = [kind |-> "returned", value |-> r]]
    /\ UNCHANGED <<_domain_idx, _session_data, fcall, _session, sessions, m_result, locals, resp, log, shutdown>>

Extract(t) == \E u \in ExtractUrls : ExtractUrl(t, u)

\* The running method of task t does o, after the logger wrote `pre`; what it
\* returns or raises reaches the loop of extract, which returns, lets the error
\* escape, moves to the next method or gives up.
Finish(t, o, pre) ==
    LET accepted == o.do = "return" /\ Accepted(o.result)
        escaped == o.do = "raise" /\ ~Caught(o.exc)
        moveOn == (o.do = "return" /\ ~accepted) \/ (o.do = "raise" /\ ~escaped)
        last == method_idx[t] = Len(extraction_methods)
        line == IF o.do = "request" THEN <<[ev |-> "GET", url |-> o.url]>>
                ELSE IF accepted THEN <<[ev |-> "succeeded", idx |-> method_idx[t]]>>
                ELSE IF o.do = "raise" /\ ~escaped
                     THEN <<[ev |-> "failed", idx |-> method_idx[t], exc |-> o.exc]>>
                     ELSE <<>>
        session == IF o.open /\ NeedSession THEN Len(sessions) + 1 ELSE _session
        failed == AllFailedReturn(result[t])
    IN  /\ m_result' = [m_result EXCEPT ![t] = o.result]
        /\ IF o.open THEN get_session ELSE UNCHANGED <<_session, sessions>>
        /\ log' = [log EXCEPT ![t] = @ \o pre \o line]
        /\ locals' = IF o.do = "request"
                     THEN [locals EXCEPT ![t] =
                              [k \in DOMAIN o.locals \cup {"session"} |->
                                  IF k = "session" THEN session ELSE o.locals[k]]]
                     ELSE locals
        /\ resp' = IF o.do = "request" THEN [resp EXCEPT ![t] = Pending] ELSE resp
        /\ pc' = [pc EXCEPT ![t] = IF o.do = "request" THEN o.at
                                   ELSE IF accepted \/ escaped \/ last THEN "done"
                                   ELSE "loop"]
        /\ method_idx' = IF moveOn /\ ~last THEN [method_idx EXCEPT ![t] = @ + 1]
                         ELSE method_idx
        /\ result' = IF moveOn /\ last THEN [result EXCEPT ![t] = failed] ELSE result
        /\ ret' = IF accepted THEN [ret EXCEPT ![t] = [kind |-> "returned", value |-> o.result]]
                  ELSE IF escaped THEN [ret EXCEPT ![t] = [kind |-> "raised", exc |-> o.exc]]
                  ELSE IF moveOn /\ last
                       THEN [ret EXCEPT ![t] = [kind |-> "returned", value |-> failed]]
                       ELSE ret
        /\ UNCHANGED <<_domain_idx, _session_data, fcall, url, surl, shutdown>>

\* video_result = await method(surl, url), up to the method's first request
TryMethod(t) ==
    /\ pc[t] = "loop"
    /\ LET method == extraction_methods[method_idx[t]]
           o == CASE method = "shorturlinfo" -> start_shorturlinfo(m_result[t], surl[t])
                  [] method = "sharelist" -> start_sharelist(m_result[t], surl[t])
                  [] method = "wap" -> start_wap(m_result[t], surl[t])
                  [] method = "alternative" -> start_alternative(m_result[t], surl[t])
       IN  Finish(t, o, <<[ev |-> "try", idx |-> method_idx[t]]>>)

Waiting == {"shorturlinfo", "page", "share_list", "stream", "wap", "alternative"}

ResponsesAt(t) ==
    CASE pc[t] = "shorturlinfo" -> ShorturlinfoResponses
      [] pc[t] = "page" -> PageResponses
      [] pc[t] = "share_list" -> ShareListResponses
      [] pc[t] = "stream" ->
            StreamResponses(IF locals[t].endpoint = 1 THEN "streaming" ELSE "download")
      [] pc[t] = "wap" -> WapResponses
      [] pc[t] = "alternative" -> FilemetasResponses

\* the backend answers the request task t waits for
Deliver(t) ==
    /\ pc[t] \in Waiting /\ resp[t].kind = "pending"
    /\ \E i \in 1..Len(ResponsesAt(t)) :
           resp' = [resp EXCEPT ![t] = ResponsesAt(t)[i]]
    /\ UNCHANGED <<_domain_idx, _session_data, fcall, _session, sessions, pc, url, surl, method_idx, result,
                   m_result, locals, ret, log, shutdown>>

Answered(t, at) == pc[t] = at /\ resp[t].kind # "pending"

Shorturlinfo(t) ==
    /\ Answered(t, "shorturlinfo")
    /\ Finish(t, on_shorturlinfo(m_result[t], locals[t], resp[t]), <<>>)

SharelistPage(t) ==
    /\ Answered(t, "page")
    /\ Finish(t, on_page(m_result[t], locals[t], resp[t]), <<>>)

SharelistList(t) ==
    /\ Answered(t, "share_list")
    /\ Finish(t, on_share_list(m_result[t], locals[t], resp[t]), <<>>)

StreamUrl(t) ==
    /\ Answered(t, "stream")
    /\ Finish(t, on_stream(m_result[t], locals[t], resp[t]), <<>>)

Wap(t) ==
    /\ Answered(t, "wap")
    /\ Finish(t, on_wap(m_result[t], locals[t], resp[t]), <<>>)

Alternative(t) ==
    /\ Answered(t, "alternative")
    /\ Finish(t, on_alternative(m_result[t], locals[t], resp[t]), <<>>)

\* One task resolves one link.
Next ==
    \E t \in {1} :
        \/ Extract(t)
        \/ TryMethod(t)
        \/ Deliver(t)
        \/ Shorturlinfo(t)
        \/ SharelistPage(t)
        \/ SharelistList(t)
        \/ StreamUrl(t)
        \/ Wap(t)
        \/ Alternative(t)

Spec == Init /\ [][Next]_vars

\* the steps of a call that has begun: the event loop runs a coroutine that
\* can go on, and every request is answered (with a response or an error, the
\* session's 30 s timeout at the latest)
Proceed ==
    \E t \in {1} :
        \/ TryMethod(t)
        \/ Deliver(t)
        \/ Shorturlinfo(t)
        \/ SharelistPage(t)
        \/ SharelistList(t)
        \/ StreamUrl(t)
        \/ Wap(t)
        \/ Alternative(t)

\* ENABLED <<Proceed>>_vars: the call is between two methods or awaits an
\* answer, which has arrived or not
CanProceed == \E t \in {1} : pc[t] = "loop" \/ pc[t] \in Waiting

\* Weak fairness of Proceed, WF_vars(Proceed), with CanProceed for its ENABLED.
SpecLive == Init /\ [][Next]_vars /\ ([]<>(~CanProceed) \/ []<><<Proceed>>_vars)

\* The link resolution together with direct calls of _find_video_file.
InitListing == Init \/ InitFind

NextListing == Next \/ Call_find_video_file

SpecListing == InitListing /\ [][NextListing]_vars

\* The link resolution together with direct calls of get_api_url.
ApiNames == (DOMAIN API_ENDPOINTS) \cup {"", "sharelist", "Shorturlinfo", "video"}
ApiTokens == {"", "abc", "1", "q_9"}

ApiCalls ==
    {[fn |-> "get_api_url", done |-> FALSE, endpoint |-> e, surl |-> s] :
        e \in ApiNames, s \in ApiTokens}

InitApi == fcall \in ApiCalls /\ NoExtract

Call_get_api_url ==
    /\ fcall.fn = "get_api_url" /\ ~fcall.done
    /\ fcall' = Returned(fcall, get_api_url(fcall.endpoint, fcall.surl))
    /\ UNCHANGED extractVars

NextApi == Next \/ Call_get_api_url

SpecApi == (Init \/ InitApi) /\ [][NextApi]_vars

-----------------------------------------------------------------------------
(* A simulated backend whose answers depend on the share token alone, the     *)
(* token showing in what it sends: "abc" resolves through the page and the    *)
(* listing, every other token through the metadata fallback.                  *)

MockFile(s) == [server_filename |-> s \o ".mp4", size |-> 1536, fs_id |-> Len(s)]

MockAnswer(t) ==
    LET s == surl[t]
        l == locals[t]
    IN  IF s = "abc"
        THEN CASE pc[t] = "shorturlinfo" ->
                    Json(200, [errno |-> 0, list |-> <<MockFile(s)>>, shareid |-> 111,
                               uk |-> 222])
               [] pc[t] = "page" ->
                    Html(200, "{\"shareid\":333,\"uk\":444,\"sign\":\"" \o s \o "\"}")
               [] pc[t] = "share_list" ->
                    Json(200, [errno |-> 0, list |-> <<MockFile(s)>>])
               [] pc[t] = "stream" ->
                    IF l.caller = "sharelist" /\ l.endpoint = 2
                    THEN Json(200, [lurl |-> "https://cdn/" \o s])
                    ELSE IF l.endpoint = 1 THEN Json(200, [errno |-> 2])
                    ELSE NetError("TimeoutError")
               [] OTHER -> NetError("ClientError")
        ELSE CASE pc[t] = "shorturlinfo" -> Json(200, [errno |-> 2])
               [] pc[t] = "page" -> Html(404, "<html>share expired</html>")
               [] pc[t] = "wap" -> Json(200, [list |-> <<MockFile(s)>>])
               [] pc[t] = "alternative" ->
                    Json(200, [info |-> Arr(<<[filename |-> s \o ".mp4", size |-> 2048,
                                               dlink |-> "https://d/" \o s]>>)])
               [] OTHER -> NetError("ClientError")

\* the simulated backend answers the request task t waits for; a request
\* whose session was closed under it may fail instead
Answer(t) ==
    /\ pc[t] \in Waiting /\ resp[t].kind = "pending"
    /\ \/ resp' = [resp EXCEPT ![t] = MockAnswer(t)]
       \/ /\ SessionClosed(locals[t])
          /\ resp' = [resp EXCEPT ![t] = NetError("ClientError")]
    /\ UNCHANGED <<_domain_idx, _session_data, fcall, _session, sessions, pc, url, surl, method_idx, result,
                   m_result, locals, ret, log, shutdown>>

-----------------------------------------------------------------------------
(* TeraboxExtractor.close, called by the shutdown handler *)

\* close up to its await: the held session, when there is one and it is open,
\* counts as closed from the call of session.close() on
CloseBegin ==
    /\ shutdown \in {"idle", "done"}
    /\ IF _session # 0 /\ sessions[_session] = "open"
       THEN /\ sessions' = [sessions EXCEPT ![_session] = "closed"]
            /\ shutdown' = "closing"
       ELSE /\ sessions' = sessions
            /\ shutdown' = "done"
    /\ UNCHANGED <<_domain_idx, _session_data, fcall, _session, pc, url, surl, method_idx, result, m_result,
                   locals, resp, ret, log>>

\* await self._session.close() returns, and close with it
CloseEnd ==
    /\ shutdown = "closing"
    /\ shutdown' = "done"
    /\ UNCHANGED <<_domain_idx, _session_data, fcall, _session, sessions, pc, url, surl, method_idx, result,
                   m_result, locals, resp, ret, log>>

\* The event loop runs one coroutine at a time, up to its next await: between
\* the end of one strategy and the first request of the next (pc = "loop") a
\* call is not suspended, and nothing else runs.
Scheduled(t) == \A u \in Tasks \ {t} : pc[u] # "loop"

NoneRunning == \A u \in Tasks : pc[u] # "loop"

Shutdown ==
    /\ NoneRunning
    /\ CloseBegin \/ CloseEnd

\* One link is being resolved against the simulated backend when the
\* shutdown handler closes the extractor.
NextShutdown ==
    \/ \E t \in {1} :
        \/ Extract(t)
        \/ TryMethod(t)
        \/ Answer(t)
        \/ Shorturlinfo(t)
        \/ SharelistPage(t)
        \/ SharelistList(t)
        \/ StreamUrl(t)
        \/ Wap(t)
        \/ Alternative(t)
    \/ Shutdown

SpecShutdown == Init /\ [][NextShutdown]_vars

\* Every task resolves a link of its own, at the same time as the others and
\* through the one extractor; a coroutine runs from one await to the next.
ConcurrentUrl(t) ==
    IF t % 2 = 1 THEN "https://www.terabox.com/s/1abc"
    ELSE "https://teraboxapp.com/sharing/link?surl=q_9"

NextConcurrent ==
    \E t \in Tasks :
        \/ Scheduled(t) /\ ExtractUrl(t, ConcurrentUrl(t))
        \/ Scheduled(t) /\ TryMethod(t)
        \/ Scheduled(t) /\ Answer(t)
        \/ Scheduled(t) /\ Shorturlinfo(t)
        \/ Scheduled(t) /\ SharelistPage(t)
        \/ Scheduled(t) /\ SharelistList(t)
        \/ Scheduled(t) /\ StreamUrl(t)
        \/ Scheduled(t) /\ Wap(t)
        \/ Scheduled(t) /\ Alternative(t)

SpecConcurrent == Init /\ [][NextConcurrent]_vars

-----------------------------------------------------------------------------
(* Claims about the pure functions *)

\* The declared pattern that first matches a part of the given shape: /s/ and
\* /wap/s/ hold the path shape, the others the query shape surl=.
PatternOf(shape) == IF shape \in {"/s/", "/wap/s/"} THEN 1 ELSE 2

\* the parts of a URL that hold a share-token shape followed by a token
TokenParts(parts) == {i \in DOMAIN parts : parts[i].shape # "" /\ parts[i].raw # ""}

\* the part the first matching pattern matches, leftmost
WinningPart(parts) ==
    CHOOSE i \in TokenParts(parts) :
        \A j \in TokenParts(parts) :
            \/ PatternOf(parts[i].shape) < PatternOf(parts[j].shape)
            \/ PatternOf(parts[i].shape) = PatternOf(parts[j].shape) /\ i <= j

StripLeadingOne(raw) ==
    IF raw # "" /\ Head(raw) = "1" THEN Tail(raw) ELSE raw

StripLeadingOneIfMore(raw) ==
    IF Len(raw) >= 2 /\ Head(raw) = "1" THEN Tail(raw) ELSE raw

SurlAnswer(strip(_)) ==
    fcall.fn = "extract_surl" /\ fcall.done =>
        IF TokenParts(fcall.parts) = {} THEN fcall.out = NoSurl
        ELSE LET token == strip(fcall.parts[WinningPart(fcall.parts)].raw)
             IN  fcall.out = [found |-> TRUE, surl |-> token,
                              normalized |-> "/s/1" \o token]

\* C7 as stated: for a registry-host URL holding a share-token shape,
\* extract_surl returns the text the first matching pattern finds after the
\* shape with its leading '1' stripped, and the path /s/1{token}; with no shape
\* it returns the absent pair.
C7_SurlLeadingOneStripped == SurlAnswer(StripLeadingOne)

\* C7 amended: the leading '1' is stripped only when at least one more token
\* character follows it; a text that is exactly "1" is itself the token.
C7_SurlLeadingOneStrippedIfMore == SurlAnswer(StripLeadingOneIfMore)

\* C7 witness: the query shape comes first in the URL, the path shape second;
\* the path shape's pattern is declared first and wins, and one '1' is stripped.
C7_Witness ==
    /\ fcall.fn = "extract_surl" /\ fcall.done
    /\ fcall.parts[1].shape = "/sharing/link?surl=" /\ fcall.parts[1].raw = "abc"
    /\ fcall.parts[2].shape = "/s/" /\ fcall.parts[2].raw = "11a"
    /\ fcall.out.found /\ fcall.out.surl = "1a" /\ fcall.out.normalized = "/s/11a"

\* The host as the specification recognizes it: lower-cased, one leading "www."
\* removed, then in the allow-list or holding a brand keyword.
StripLeadingAlias(h) ==
    IF StartsWithAt(h, "www.", 1) THEN SubSeq(h, 5, Len(h)) ELSE h

AllowList == {StripLeadingAlias(DOMAINS[i]) : i \in 1..Len(DOMAINS)}

HostRecognized(h) ==
    LET a == StripLeadingAlias(Lower(h))
    IN  a \in AllowList \/ \E k \in Keywords : Contains(a, k)

\* C8: for a URL whose host is unrecognized, is_terabox_url returns false
\* whatever the rest of the URL holds, and a malformed URL yields false.
C8_UnrecognizedHostRejected ==
    fcall.fn = "is_terabox_url" /\ fcall.done =>
        /\ ~HostRecognized(fcall.host) => fcall.out = FALSE
        /\ fcall.scheme \in {"", "https:/"} \/ fcall.host = "[bad"
               => fcall.out = FALSE

\* The extension of a file name: what follows its last dot.
ExtensionOf(name) ==
    LET dots == {i \in 1..Len(name) : Ch(name, i) = "."}
    IN  IF dots = {} THEN ""
        ELSE SubSeq(name, (CHOOSE i \in dots : \A j \in dots : j <= i) + 1, Len(name))

VideoExtensions == {"mp4", "mkv", "avi", "mov", "wmv", "flv", "webm", "m4v", "ts",
                    "3gp", "3g2"}

RecordName(f) ==
    IF "server_filename" \in DOMAIN f THEN f.server_filename
    ELSE IF "filename" \in DOMAIN f THEN f.filename ELSE ""

TierExtension(f) == Lower(ExtensionOf(RecordName(f))) \in VideoExtensions
TierCategory(f) == "category" \in DOMAIN f /\ f.category = 1
TierMime(f) == "mime_type" \in DOMAIN f /\ Contains(f.mime_type, "video")
TierMimeAnyCase(f) == "mime_type" \in DOMAIN f /\ Contains(Lower(f.mime_type), "video")

\* the records of l that meet the highest tier any record meets
BestTier(l, T1(_), T2(_), T3(_)) ==
    LET in(T(_)) == {i \in 1..Len(l) : T(l[i])}
    IN  IF in(T1) # {} THEN in(T1)
        ELSE IF in(T2) # {} THEN in(T2)
        ELSE IF in(T3) # {} THEN in(T3)
        ELSE 1..Len(l)

SelectsByTier(T3(_)) ==
    fcall.fn = "_find_video_file" /\ fcall.done /\ fcall.file_list # <<>> =>
        LET best == BestTier(fcall.file_list, TierExtension, TierCategory, T3)
        IN  fcall.out = fcall.file_list[Min(best)]

\* C9 as stated: over a non-empty list _find_video_file returns the first record
\* with a video extension (any case), else the first with category 1, else the
\* first whose mime type contains "video", else the first record.
C9_SelectsByTier == SelectsByTier(TierMime)

\* C9 amended: the mime type is compared case-insensitively, like the name.
C9_SelectsByTierAnyCase == SelectsByTier(TierMimeAnyCase)

\* C9 witness: a category-1 record first, a record with no match second and
\* movie.MKV last; the extension tier wins.
C9_Witness ==
    /\ fcall.fn = "_find_video_file" /\ fcall.done
    /\ Len(fcall.file_list) = 3
    /\ fcall.file_list[1].fs_id = 3 /\ fcall.file_list[2].fs_id = 2
    /\ fcall.file_list[3].fs_id = 1
    /\ fcall.out.fs_id = 1

-----------------------------------------------------------------------------
(* Claims about extract *)

\* the positions of task t's log that hold an event of kind ev
Events(t, ev) == {k \in 1..Len(log[t]) : log[t][k].ev = ev}

HasReturned(t) == ret[t].kind = "returned"

Succeeded(t) == ret[t].kind = "returned" /\ ret[t].value.success

\* C1: every VideoResult with success = true has a non-empty stream_url, be it
\* the one extract returns or the one a strategy hands to extract.
C1_SuccessHasStreamUrl ==
    \A t \in Tasks :
        /\ Succeeded(t) => ret[t].value.stream_url # ""
        /\ m_result[t].success => m_result[t].stream_url # ""

\* C1 witness: extract has returned a success, obtained from a streaming endpoint.
C1_Witness ==
    /\ Succeeded(1)
    /\ ret[1].value.stream_url = "https://cdn/download/lurl"

\* the first request of strategy i for the share token s
StrategyUrl(i, s) ==
    CASE i = 1 -> "https://www.terabox.com/api/shorturlinfo?surl=1" \o s
      [] i = 2 -> "https://www.terabox.com/s/1" \o s
      [] i = 3 -> "https://www.terabox.com/share/wxlist?surl=1" \o s
      [] i = 4 -> "https://www.terabox.com/api/filemetas"

\* C2: the strategies start in the order shorturlinfo, sharelist, wap,
\* alternative, each only when the one before it has failed, and a success is
\* the last thing that happens: no later strategy starts and extract returns
\* the succeeding strategy's result.
C2_StrategiesInOrder ==
    \A t \in Tasks :
        LET l == log[t]
            tries == Events(t, "try")
        IN  /\ \A k \in tries :
                /\ l[k].idx = Cardinality({j \in tries : j <= k})
                /\ l[k + 1].ev = "GET"
                /\ l[k + 1].url = StrategyUrl(l[k].idx, surl[t])
                /\ l[k].idx > 1 => l[k - 1].ev = "failed" /\ l[k - 1].idx = l[k].idx - 1
            /\ \A k \in Events(t, "succeeded") :
                /\ k = Len(l)
                /\ l[k].idx = Cardinality(tries)
                /\ pc[t] = "done"
                /\ ret[t] = [kind |-> "returned", value |-> m_result[t]]
                /\ m_result[t].success /\ m_result[t].stream_url # ""

\* C2 witness: the third strategy succeeded after the first two failed.
C2_Witness ==
    /\ Succeeded(1)
    /\ log[1][Len(log[1])] = [ev |-> "succeeded", idx |-> 3]
    /\ Cardinality(Events(1, "failed")) = 2

ErrorMessages == {InvalidUrlError, NoShareIdError, AllFailedError}

\* C3: no error of a strategy leaves extract; after a failed strategy the next
\* one is tried, or extract gives up after the last; the error extract returns
\* is one of its three messages.
C3_StrategyErrorsCaught ==
    \A t \in Tasks :
        /\ ret[t].kind # "raised"
        /\ HasReturned(t) =>
              IF ret[t].value.success THEN ret[t].value.error = ""
              ELSE ret[t].value.error \in ErrorMessages
        /\ \A k \in Events(t, "failed") :
              IF log[t][k].idx < Len(extraction_methods)
              THEN IF k = Len(log[t]) THEN pc[t] = "loop"
                   ELSE log[t][k + 1] = [ev |-> "try", idx |-> log[t][k].idx + 1]
              ELSE k = Len(log[t]) /\ pc[t] = "done" /\ HasReturned(t)
                   /\ ret[t].value.error = AllFailedError

\* C3 witness: strategies failed with a timeout, an unparsable body, a missing
\* field and an API error, and extract returned.
C3_Witness ==
    /\ HasReturned(1)
    /\ {log[1][k].exc : k \in Events(1, "failed")} =
          {"TimeoutError", "ContentTypeError", "AttributeError", "Exception"}

\* the fields a strategy may write
StrategyFields == {"title", "filename", "size_str", "thumbnail", "stream_url",
                   "download_url", "fs_id", "share_id", "uk"}

\* C4: when all four strategies have failed, extract returns success = false, a
\* non-empty error and every field a strategy may write at its default.
C4_AllFailedResult ==
    \A t \in Tasks :
        {log[t][k].idx : k \in Events(t, "failed")} = 1..4 =>
            /\ HasReturned(t)
            /\ ~ret[t].value.success
            /\ ret[t].value.error # ""
            /\ ret[t].value.size = VideoResult.size
            /\ \A f \in StrategyFields : ret[t].value[f] = VideoResult[f]

\* C4 witness: all four failed, the first after it had filled in its result and
\* asked both streaming endpoints.
C4_Witness ==
    /\ {log[1][k].idx : k \in Events(1, "failed")} = 1..4
    /\ log[1][3] = [ev |-> "GET", url |-> "https://www.terabox.com/share/streaming"]
    /\ log[1][4] = [ev |-> "GET", url |-> "https://www.terabox.com/share/download"]
    /\ ret[1].value.error = AllFailedError

\* the fields strategy i never writes
Unwritten ==
    << {"error"},
       {"error", "thumbnail"},
       {"error", "thumbnail", "share_id", "uk"},
       {"error", "thumbnail", "share_id", "uk", "filename", "fs_id"} >>

\* C5: the result of a success holds nothing of a strategy that failed before:
\* the fields the succeeding strategy does not write are at their defaults (the
\* others it overwrites).
C5_NoLeakFromFailedStrategy ==
    \A t \in Tasks :
        Succeeded(t) =>
            /\ \A f \in Unwritten[log[t][Len(log[t])].idx] : ret[t].value[f] = VideoResult[f]
            /\ ret[t].value.surl = surl[t]

\* C5 witness: the first strategy filled in its result, failed to get a
\* streaming URL, and the metadata fallback succeeded.
C5_Witness ==
    /\ Succeeded(1)
    /\ log[1][Len(log[1])] = [ev |-> "succeeded", idx |-> 4]
    /\ log[1][3] = [ev |-> "GET", url |-> "https://www.terabox.com/share/streaming"]
    /\ log[1][5] = [ev |-> "failed", idx |-> 1, exc |-> "Exception"]

\* the host of a URL: the netloc without user information and port
HostOf(u) ==
    LET netloc == urlparse(u).netloc
        ats == {i \in 1..Len(netloc) : Ch(netloc, i) = "@"}
        from == IF ats = {} THEN 1 ELSE (CHOOSE i \in ats : \A j \in ats : j <= i) + 1
        colons == {i \in from..Len(netloc) : Ch(netloc, i) = ":"}
        to == IF colons = {} THEN Len(netloc) ELSE Min(colons) - 1
    IN  SubSeq(netloc, from, to)

\* extract returned the error msg and did nothing else
RejectedWith(t, msg) ==
    /\ pc[t] = "done"
    /\ ret[t] = [kind |-> "returned", value |-> [VideoResult EXCEPT !.error = msg]]
    /\ log[t] = <<>>
    /\ _session = 0 /\ sessions = <<>>

\* C6: a URL whose host is not recognized is rejected with the invalid-URL
\* error, one with a recognized host and no share token with the no-share-token
\* error, and in both cases no strategy starts, no session is created and no
\* request is issued.
C6_RejectedBeforeAnyWork ==
    \A t \in Tasks :
        pc[t] # "idle" =>
            /\ ~HostRecognized(HostOf(url[t])) => RejectedWith(t, InvalidUrlError)
            /\ HostRecognized(HostOf(url[t])) /\ ~extract_surl(url[t]).found
                  => RejectedWith(t, NoShareIdError)

\* the answer is a JSON body without a file listing or with an empty one
NoListing(rsp) ==
    /\ rsp.kind = "http" /\ "body" \in DOMAIN rsp
    /\ Get(rsp.body, "list", <<>>) = <<>>

\* the answer of the metadata endpoint has no file record
NoInfo(rsp) ==
    /\ rsp.kind = "http" /\ "body" \in DOMAIN rsp
    /\ "info" \notin DOMAIN rsp.body \/ rsp.body.info = Arr(<<>>)

\* task t's strategy goes on from an answer without listing
HandlesNoListing(t) ==
    /\ pc'[t] # pc[t]
    /\ \/ pc[t] \in {"shorturlinfo", "share_list", "wap"} /\ NoListing(resp[t])
       \/ pc[t] = "alternative" /\ NoInfo(resp[t])

\* the strategy of task t ends in a failure that extract catches
EndsInCaughtFailure(t) ==
    /\ Len(log'[t]) = Len(log[t]) + 1
    /\ log'[t][Len(log'[t])] = [ev |-> "failed", idx |-> method_idx[t], exc |-> "Exception"]
    /\ ~m_result'[t].success
    /\ ret'[t].kind # "raised"
    /\ pc'[t] \in {"loop", "done"}
    /\ pc'[t] = "done" => ~ret'[t].value.success

\* C10: _find_video_file over the empty list returns None, and a strategy that
\* receives an empty or missing listing ends in a failure that extract catches.
C10_EmptyListingFails ==
    /\ [](fcall.fn = "_find_video_file" /\ fcall.done /\ fcall.file_list = <<>>
              => fcall.out = None)
    /\ [][\A t \in Tasks : HandlesNoListing(t) => EndsInCaughtFailure(t)]_vars

\* C10 witness: the mobile listing came back empty or without a list, the third
\* strategy failed and extract moves on to the fourth.
C10_Witness ==
    /\ pc[1] = "loop" /\ method_idx[1] = 4
    /\ NoListing(resp[1])
    /\ log[1][Len(log[1])] = [ev |-> "failed", idx |-> 3, exc |-> "Exception"]

-----------------------------------------------------------------------------
(* Claims about the strategies *)

\* an answer with status 200, errno = 0 and a list of one record with a direct link
InlineLinkAnswer(rsp) ==
    /\ rsp.kind = "http" /\ rsp.status = 200 /\ "body" \in DOMAIN rsp
    /\ Get(rsp.body, "errno", 1) = 0
    /\ Len(Get(rsp.body, "list", <<>>)) = 1
    /\ Get(rsp.body.list[1], "dlink", "") # ""

\* the first strategy of task t has gone on from resp[t], its only request so far
AfterMetadataAnswer(t) ==
    /\ pc[t] \notin {"idle", "shorturlinfo"}
    /\ Cardinality(Events(t, "GET")) = 1
    /\ resp[t].kind # "pending"

\* C11: when the shorturlinfo endpoint answers with errno = 0 and one record
\* that carries a direct link, extract returns success with stream_url and
\* download_url equal to that link, having asked no other endpoint and tried no
\* other strategy.
C11_InlineLinkSucceeds ==
    \A t \in Tasks :
        AfterMetadataAnswer(t) /\ InlineLinkAnswer(resp[t]) =>
            /\ pc[t] = "done" /\ Succeeded(t)
            /\ ret[t].value.stream_url = resp[t].body.list[1].dlink
            /\ ret[t].value.download_url = resp[t].body.list[1].dlink
            /\ log[t] = << [ev |-> "try", idx |-> 1],
                           [ev |-> "GET", url |-> StrategyUrl(1, surl[t])],
                           [ev |-> "succeeded", idx |-> 1] >>

-----------------------------------------------------------------------------
(* Claims about the session *)

\* task t calls get_session in this step: a strategy starts, or a strategy
\* calls the streaming helper
GetsSession(t) ==
    \/ pc[t] = "loop" /\ log'[t] # log[t]
    \/ pc[t] \in {"shorturlinfo", "share_list"} /\ pc'[t] = "stream"

HoldsOpenSession == _session # 0 /\ sessions[_session] = "open"

\* C12: get_session returns an open session, the held one when it is open and
\* a newly created one when none is held or the held one is closed (so also
\* after close); a session is created by nothing else; close leaves the
\* extractor as it is when no session is held or the held one is closed.
C12_SessionLazyAndReused ==
    [][ /\ \A t \in Tasks :
              GetsSession(t) =>
                  /\ locals'[t].session = _session'
                  /\ sessions'[_session'] = "open"
                  /\ IF HoldsOpenSession
                     THEN _session' = _session /\ sessions' = sessions
                     ELSE /\ _session' = Len(sessions) + 1
                          /\ sessions' = Append(sessions, "open")
        /\ Len(sessions') # Len(sessions) \/ _session' # _session =>
              \E t \in Tasks : GetsSession(t) /\ ~HoldsOpenSession
        /\ shutdown' # shutdown =>
              /\ _session' = _session
              /\ IF HoldsOpenSession /\ shutdown' = "closing"
                 THEN sessions' = [sessions EXCEPT ![_session] = "closed"]
                 ELSE sessions' = sessions
              /\ ~HoldsOpenSession /\ shutdown # "closing" => shutdown' = "done"
      ]_vars

\* C12 witness: the first session was closed, and the call in flight got a
\* second one from get_session.
C12_Witness ==
    /\ sessions = <<"closed", "open">> /\ _session = 2
    /\ pc[1] \in Waiting /\ locals[1].session = 2
    /\ shutdown = "done"

\* C13: once close has completed the extractor holds no open session, whatever
\* the call in flight at shutdown does.
C13_ShutdownReleasesSession ==
    shutdown = "done" => \A i \in 1..Len(sessions) : sessions[i] = "closed"

-----------------------------------------------------------------------------
(* Claims about the course of one call *)

\* C14: a call attempts each strategy at most once, four attempts at most, and
\* the strategies attempted are, in order, the first ones of the fixed order.
C14_EachStrategyOnce ==
    \A t \in Tasks :
        LET l == log[t]
            tries == Events(t, "try")
            gets == Events(t, "GET")
        IN  /\ Cardinality(tries) <= 4
            /\ \A i \in 1..4 :
                /\ Cardinality({k \in tries : l[k].idx = i}) <= 1
                /\ Cardinality({k \in gets : l[k].url = StrategyUrl(i, surl[t])}) <= 1
            /\ \A k \in tries :
                l[k + 1].url = StrategyUrl(Cardinality({j \in tries : j <= k}), surl[t])

\* C14 witness: the call has made its fourth attempt.
C14_Witness ==
    /\ Cardinality(Events(1, "try")) = 4
    /\ Cardinality(Events(1, "failed")) = 3
    /\ pc[1] = "alternative"

\* C15: a call of extract ends, and with exactly one VideoResult: what it
\* returned stays what it is.
C15_ExtractTerminates ==
    /\ \A t \in Tasks : pc[t] # "idle" ~> (pc[t] = "done" /\ ret[t].kind = "returned")
    /\ [][\A t \in Tasks : ret[t].kind # "none" => ret'[t] = ret[t]]_vars

\* C15 witness: the call returned after the nine requests of its longest course.
C15_Witness ==
    /\ pc[1] = "done" /\ HasReturned(1)
    /\ Cardinality(Events(1, "GET")) = 9

StreamingUrl == "https://www.terabox.com/share/streaming"
DownloadUrl == "https://www.terabox.com/share/download"

\* the URL of the last request of task t
LastGet(t) ==
    LET gets == Events(t, "GET")
    IN  log[t][CHOOSE k \in gets : \A j \in gets : j <= k].url

\* the URL an answer of a streaming endpoint holds: under dlink, lurl, url, mlink
\* in that order, then under list[0].dlink or list.dlink; "" when it holds none
FoundUrl(rsp) ==
    IF rsp.kind # "http" \/ ~rsp.json THEN ""
    ELSE LET d == rsp.body
             inList == IF "list" \notin DOMAIN d THEN ""
                       ELSE IF "array" \in DOMAIN d.list
                            THEN IF d.list.array = <<>> THEN ""
                                 ELSE Get(d.list.array[1], "dlink", "")
                            ELSE Get(d.list.object, "dlink", "")
         IN  IF Get(d, "dlink", "") # "" THEN d.dlink
             ELSE IF Get(d, "lurl", "") # "" THEN d.lurl
             ELSE IF Get(d, "url", "") # "" THEN d.url
             ELSE IF Get(d, "mlink", "") # "" THEN d.mlink
             ELSE inList

\* C17: the helper asks /share/streaming first; the first URL an answer holds
\* is returned and the call succeeds with it, the other endpoint not being
\* asked; an answer without URL, or an error, of the first endpoint is followed
\* by the request to /share/download; without URL from either, the strategy fails.
C17_StreamingThenDownload ==
    [][\A t \in Tasks :
          /\ pc[t] # "stream" /\ pc'[t] = "stream" =>
                log'[t] = Append(log[t], [ev |-> "GET", url |-> StreamingUrl])
          /\ pc[t] = "stream" /\ resp[t].kind # "pending" /\ log'[t] # log[t] =>
                IF FoundUrl(resp[t]) # ""
                THEN /\ log'[t] = Append(log[t], [ev |-> "succeeded", idx |-> method_idx[t]])
                     /\ ret'[t].kind = "returned" /\ ret'[t].value.success
                     /\ ret'[t].value.stream_url = FoundUrl(resp[t])
                     /\ ret'[t].value.download_url = FoundUrl(resp[t])
                ELSE IF LastGet(t) = StreamingUrl
                     THEN /\ log'[t] = Append(log[t], [ev |-> "GET", url |-> DownloadUrl])
                          /\ pc'[t] = "stream"
                     ELSE /\ log'[t] = Append(log[t], [ev |-> "failed", idx |-> method_idx[t],
                                                       exc |-> "Exception"])
                          /\ ~m_result'[t].success
      ]_vars

\* C17 witness: /share/streaming timed out or held no URL, /share/download
\* held one under list[0].dlink, and the call succeeded with it.
C17_Witness ==
    /\ Succeeded(1)
    /\ ret[1].value.stream_url = "https://cdn/download/list0"
    /\ LastGet(1) = DownloadUrl

\* C19: a host is accepted exactly when, with one leading "www." removed, it is
\* in the allow-list or holds a brand keyword.
C19_OnlyLeadingAliasStripped ==
    /\ fcall.fn = "is_terabox_url" /\ fcall.done
    /\ fcall.scheme \in {"https://", "http://", "HTTPS://", "//"}
    /\ fcall.userinfo = "" /\ fcall.host # "[bad"
    => fcall.out = HostRecognized(fcall.host)

\* the mobile-listing strategy of task t has gone on from the listing resp[t]
AfterWapListing(t) ==
    /\ pc[t] \in {"loop", "done"}
    /\ Events(t, "GET") # {} /\ LastGet(t) = StrategyUrl(3, surl[t])
    /\ resp[t].kind = "http" /\ resp[t].json
    /\ Get(resp[t].body, "list", <<>>) # <<>>

WapSucceeded(t) ==
    /\ log[t][Len(log[t])] = [ev |-> "succeeded", idx |-> 3]
    /\ Succeeded(t)

\* C20: with a non-empty listing in which some record has a
\* non-empty dlink, the mobile-listing strategy succeeds with a non-empty
\* stream_url.
C20_AnyDlinkSucceeds ==
    \A t \in Tasks :
        /\ AfterWapListing(t)
        /\ \E i \in 1..Len(resp[t].body.list) : Get(resp[t].body.list[i], "dlink", "") # ""
        => WapSucceeded(t) /\ ret[t].value.stream_url # ""

-----------------------------------------------------------------------------
(* Claims about concurrent calls *)

\* what a call of extract on u returns when it is the only call
AloneResult(u) ==
    IF u = "https://www.terabox.com/s/1abc"
    THEN [VideoResult EXCEPT !.success = TRUE, !.title = "abc.mp4", !.filename = "abc.mp4",
                             !.size = 1536, !.size_str = "1.50 KB", !.fs_id = "3",
                             !.share_id = "333", !.uk = "444", !.surl = "abc",
                             !.stream_url = "https://cdn/abc",
                             !.download_url = "https://cdn/abc"]
    ELSE [VideoResult EXCEPT !.success = TRUE, !.title = "q_9.mp4", !.size = 2048,
                             !.size_str = "2.00 KB", !.surl = "q_9",
                             !.stream_url = "https://d/q_9",
                             !.download_url = "https://d/q_9"]

OfTask(t) == <<pc[t], url[t], surl[t], method_idx[t], result[t], m_result[t],
               locals[t], resp[t], ret[t], log[t]>>

\* C16: however the calls interleave, each returns what it returns alone, with
\* the token of its own URL; the result under construction never carries
\* another call's token, and no step of one call touches the state of another.
C16_NoCrossTalk ==
    /\ [](\A t \in Tasks :
            /\ ret[t].kind # "raised"
            /\ HasReturned(t) => ret[t].value = AloneResult(url[t])
            /\ pc[t] # "idle" => m_result[t].surl \in {"", surl[t]})
    /\ [][\E t \in Tasks : \A u \in Tasks \ {t} : OfTask(u)' = OfTask(u)]_vars

\* C16 witness: the second call has returned its own link while the first, on
\* the same session, awaits the answer of the streaming helper.
C16_Witness ==
    /\ HasReturned(2) /\ ret[2].value = AloneResult(ConcurrentUrl(2))
    /\ pc[1] = "stream" /\ locals[1].endpoint = 2 /\ resp[1].kind = "pending"
    /\ locals[1].session = 1 /\ Cardinality(Events(2, "GET")) >= 3

-----------------------------------------------------------------------------
(* Claims about format_size *)

UnitNames == <<"B", "KB", "MB", "GB", "TB">>

\* m * 1024^e < 1024^(k + 1)
Below(m, e, k) == e <= k /\ m \div Pow1024(k - e) < 1024

\* the first unit, counted from 0, in which m * 1024^e is below 1024; TB otherwise
UnitOf(m, e) ==
    IF \E k \in 0..3 : Below(m, e, k) THEN Min({k \in 0..3 : Below(m, e, k)}) ELSE 4

\* m * 1024^e divided by 1024 once per unit step, to two decimals, and the unit
Expected(m, e) ==
    LET k == UnitOf(m, e)
    IN  (IF e >= k THEN Fmt2f(m * Pow1024(e - k), 1) ELSE Fmt2f(m, Pow1024(k - e)))
            \o " " \o UnitNames[k + 1]

\* C18: format_size gives "Unknown" for a size of 0 or less, and otherwise the
\* size divided by 1024 per unit step in the first of B, KB, MB, GB where it is
\* below 1024, TB otherwise; 1536 is "1.50 KB" and 1024^k is 1.00 of the k-th
\* unit; the method of VideoResult and the module's function give the same text.
C18_FormatSizeAgree ==
    fcall.fn = "format_size" /\ fcall.done =>
        /\ fcall.out.function = fcall.out.method
        /\ fcall.m <= 0 => fcall.out.method = "Unknown"
        /\ fcall.m > 0 => fcall.out.method = Expected(fcall.m, fcall.e)
        /\ fcall.m = 1536 /\ fcall.e = 0 => fcall.out.method = "1.50 KB"
        /\ fcall.m = 1 /\ fcall.e <= 4 =>
              fcall.out.method = "1.00 " \o UnitNames[fcall.e + 1]

\* C18 witness: 1024^4 bytes are 1.00 TB for both.
C18_Witness ==
    /\ fcall.fn = "format_size" /\ fcall.done /\ fcall.m = 1 /\ fcall.e = 4
    /\ fcall.out = [method |-> "1.00 TB", function |-> "1.00 TB"]

-----------------------------------------------------------------------------
(* Claims about the steps of the strategies *)

ListUrl == "https://www.terabox.com/share/list"

\* the step of task t that goes on from the answer it awaited at `at`
GoesOnFrom(t, at) == pc[t] = at /\ resp[t].kind # "pending" /\ log'[t] # log[t]

\* the step of task t ends its strategy in a failure, asking nothing more
FailsAtOnce(t) ==
    /\ Len(log'[t]) = Len(log[t]) + 1
    /\ log'[t][Len(log'[t])].ev = "failed"
    /\ log'[t][Len(log'[t])].idx = method_idx[t]
    /\ pc'[t] \in {"loop", "done"}

\* the step of task t issues the request of u and nothing else
Asks(t, u, at) ==
    /\ log'[t] = Append(log[t], [ev |-> "GET", url |-> u])
    /\ pc'[t] = at

\* no shareid among the tokens scraped from the page (no page at all included)
NoShareid(rsp) ==
    rsp.kind = "error" \/ "shareid" \notin DOMAIN _parse_page_data(rsp.text)

\* no record in the listing (no listing at all included)
EmptyListing(rsp) ==
    rsp.kind = "error" \/ ~rsp.json \/ Get(rsp.body, "list", <<>>) = <<>>

\* C21: the page+listing strategy asks for the page, then for the listing,
\* then for the streaming URL; without shareid among the scraped tokens it
\* fails at once, asking neither the listing nor the streaming endpoints; with
\* an empty listing it fails without asking the streaming endpoints.
C21_PageListingOrder ==
    [][\A t \in Tasks :
          /\ pc[t] = "loop" /\ method_idx[t] = 2 /\ log'[t] # log[t] =>
                /\ log'[t] = log[t] \o << [ev |-> "try", idx |-> 2],
                                         [ev |-> "GET", url |-> StrategyUrl(2, surl[t])] >>
                /\ pc'[t] = "page"
          /\ GoesOnFrom(t, "page") =>
                IF NoShareid(resp[t]) THEN FailsAtOnce(t)
                ELSE Asks(t, ListUrl, "share_list")
          /\ GoesOnFrom(t, "share_list") =>
                IF EmptyListing(resp[t]) THEN FailsAtOnce(t)
                ELSE Asks(t, StreamingUrl, "stream")
          /\ pc'[t] = "share_list" => pc[t] \in {"page", "share_list"}
          /\ pc'[t] = "stream" /\ locals'[t].caller = "sharelist" =>
                pc[t] \in {"share_list", "stream"}
      ]_vars

\* C21 witness: the page held uk and timestamp but no shareid; the strategy
\* failed right after the page request.
C21_Witness ==
    /\ pc[1] = "loop" /\ method_idx[1] = 3
    /\ resp[1].kind = "http" /\ resp[1].status = 200 /\ NoShareid(resp[1])
    /\ log[1][Len(log[1])] = [ev |-> "failed", idx |-> 2, exc |-> "Exception"]
    /\ log[1][Len(log[1]) - 1] = [ev |-> "GET", url |-> StrategyUrl(2, surl[1])]

\* the metadata answer has a status other than 200, an errno other than 0 or
\* none, or no file record
BadMetadata(rsp) ==
    /\ rsp.kind = "http"
    /\ \/ rsp.status # 200
       \/ rsp.json /\ (Get(rsp.body, "errno", 1) # 0 \/ Get(rsp.body, "list", <<>>) = <<>>)

\* C22: on a metadata answer with a status other than 200, an errno other than
\* 0 or none, or an empty or missing list, the direct-info strategy fails
\* without asking the streaming endpoints; it calls the streaming helper only
\* when errno = 0 and the file selected has no direct link.
C22_MetadataRejected ==
    [][\A t \in Tasks :
          GoesOnFrom(t, "shorturlinfo") =>
              /\ BadMetadata(resp[t]) =>
                    /\ FailsAtOnce(t)
                    /\ log'[t][Len(log'[t])].exc = "Exception"
              /\ pc'[t] = "stream" =>
                    /\ resp[t].kind = "http" /\ resp[t].status = 200 /\ resp[t].json
                    /\ Get(resp[t].body, "errno", 1) = 0
                    /\ Get(resp[t].body, "list", <<>>) # <<>>
                    /\ ~Falsy(_find_video_file(resp[t].body.list))
                    /\ Get(_find_video_file(resp[t].body.list), "dlink", "") = ""
                    /\ Asks(t, StreamingUrl, "stream")
      ]_vars

\* C22 witness: the answer carries a record with a direct link but no errno;
\* the strategy failed after its one request.
C22_Witness ==
    /\ pc[1] = "loop" /\ method_idx[1] = 2
    /\ resp[1].kind = "http" /\ resp[1].status = 200 /\ resp[1].json
    /\ "errno" \notin DOMAIN resp[1].body
    /\ Get(resp[1].body, "list", <<>>) # <<>>
    /\ log[1] = << [ev |-> "try", idx |-> 1],
                   [ev |-> "GET", url |-> StrategyUrl(1, surl[1])],
                   [ev |-> "failed", idx |-> 1, exc |-> "Exception"] >>

-----------------------------------------------------------------------------
(* Claims about the endpoint table *)

\* C23: no call of extract meets the unknown-endpoint error: every name a
\* method passes to get_api_url is a key of the table, no strategy fails with
\* ValueError and each attempt is followed by its request; get_api_url raises
\* for a name outside the table, gives the path with ?surl=1{token} for
\* shorturlinfo and share_wxlist with a token, and the bare path on
\* www.terabox.com otherwise.
C23_EndpointsKnown ==
    /\ \A m \in DOMAIN EndpointNames : EndpointNames[m] \in DOMAIN API_ENDPOINTS
    /\ \A t \in Tasks :
          /\ ret[t].kind # "raised"
          /\ \A k \in Events(t, "failed") : log[t][k].exc # "ValueError"
          /\ \A k \in Events(t, "try") :
                /\ k < Len(log[t])
                /\ log[t][k + 1] = [ev |-> "GET", url |-> StrategyUrl(log[t][k].idx, surl[t])]
    /\ fcall.fn = "get_api_url" /\ fcall.done =>
          IF fcall.endpoint \notin DOMAIN API_ENDPOINTS
          THEN fcall.out.raises
          ELSE /\ ~fcall.out.raises
               /\ fcall.out.url =
                     "https://www.terabox.com" \o API_ENDPOINTS[fcall.endpoint]
                        \o (IF fcall.endpoint \in {"shorturlinfo", "share_wxlist"}
                               /\ fcall.surl # ""
                            THEN "?surl=1" \o fcall.surl ELSE "")

\* C23 witness: all four strategies were attempted and failed, none of them
\* for an endpoint name.
C23_Witness ==
    /\ pc[1] = "done" /\ HasReturned(1) /\ ~ret[1].value.success
    /\ Cardinality(Events(1, "failed")) = 4
    /\ \A k \in Events(1, "failed") : log[1][k].exc \in {"Exception", "ClientError"}

-----------------------------------------------------------------------------
(* Claims about the extractor's fields *)

\* the step starts a strategy of task t
StartsStrategy(t) ==
    /\ Len(log'[t]) > Len(log[t])
    /\ log'[t][Len(log[t]) + 1].ev = "try"

\* C24: the calls of extract write no field of the extractor but _session,
\* which changes only when get_session creates a session because none is open;
\* and a strategy starts from a VideoResult that holds the token and nothing
\* else, with no local left by the strategy or the call before it.
C24_NoStateKept ==
    [][/\ _domain_idx' = _domain_idx
       /\ _session_data' = _session_data
       /\ _session' # _session \/ sessions' # sessions =>
             /\ _session = 0 \/ sessions[_session] = "closed"
             /\ sessions' = Append(sessions, "open")
             /\ _session' = Len(sessions')
       /\ \A t \in Tasks :
             StartsStrategy(t) =>
                 /\ m_result'[t] = [VideoResult EXCEPT !.surl = surl[t]]
                 /\ pc'[t] \in Waiting =>
                       /\ DOMAIN locals'[t] = {"caller", "session"}
                       /\ locals'[t].caller = extraction_methods[method_idx[t]]
                       /\ locals'[t].session = _session'
      ]_vars

\* C24 witness: the first call is over; the second call, on the session the
\* first one created, has begun its second strategy after its first one
\* fetched a file record.
C24_Witness ==
    /\ pc[1] = "done" /\ Succeeded(1)
    /\ pc[2] = "page" /\ method_idx[2] = 2
    /\ m_result[2] = [VideoResult EXCEPT !.surl = surl[2]]
    /\ _session = 1 /\ sessions = <<"open">>
    /\ _domain_idx = 0 /\ _session_data = <<>>

\* C26: with calls of extract interleaved and no close, one session is created
\* and every call uses it: get_session never creates a second session while
\* the first is open, so no open session is dropped by the extractor.
C26_OneSessionShared ==
    /\ Len(sessions) <= 1
    /\ _session = Len(sessions)
    /\ \A i \in 1..Len(sessions) : sessions[i] = "open"
    /\ \A t \in Tasks : pc[t] \in Waiting => locals[t].session = 1 /\ _session = 1

\* C26 witness: two calls await answers at the same time, both on session 1.
C26_Witness ==
    /\ pc[1] \in Waiting /\ pc[2] \in Waiting
    /\ resp[1].kind = "pending" /\ resp[2].kind = "pending"
    /\ locals[1].session = 1 /\ locals[2].session = 1
    /\ sessions = <<"open">>

-----------------------------------------------------------------------------
(* Claims about the normalized path *)

\* C25: extract_surl applied to the normalized path it returned gives the same
\* token and the same normalized path, which is "/s/1" followed by the token.
C25_NormalizationIdempotent ==
    fcall.fn = "extract_surl_normalized" =>
        /\ fcall.url = "/s/1" \o fcall.first.surl
        /\ fcall.out.found
        /\ fcall.out.surl = fcall.first.surl
        /\ fcall.out.normalized = fcall.first.normalized

\* C25 witness: a token that begins with 1 comes back from its normalized path.
C25_Witness ==
    /\ fcall.fn = "extract_surl_normalized"
    /\ fcall.first.surl = "1a" /\ fcall.url = "/s/11a"
    /\ fcall.out = [found |-> TRUE, surl |-> "1a", normalized |-> "/s/11a"]

====
